---- MODULE Spec2Model ----
(***************************************************************************)
(* Model of infra/scripts/update_td.py and infra/scripts/deploy_ecs.py.    *)
(*                                                                         *)
(* Both scripts filter a task-definition document down to an allow-list    *)
(* of keys and rewrite the tag of every container image.  update_td reads  *)
(* the document from a file and writes the result back; deploy_ecs fetches *)
(* it with `describe-task-definition`, registers the result and updates    *)
(* the service, once per hard-coded service name.                          *)
(*                                                                         *)
(* Representation.                                                         *)
(*   string            a sequence of one-character strings                 *)
(*   container dict    [hasImage, image]                                   *)
(*   JSON document     [fields, hasCds, cds]: `fields` is a function from  *)
(*                     the scalar keys present to their values ("null" is  *)
(*                     JSON null, "[]" the empty list, "v" anything else), *)
(*                     `cds` the value of key containerDefinitions         *)
(*   JSON text         [envelope, doc]: envelope is whether the top-level  *)
(*                     object has the key taskDefinition                   *)
(*   Python objects    the list under containerDefinitions lives in `heap` *)
(*                     and dicts hold its address, so that two dicts can   *)
(*                     share one list as they do in Python                 *)
(***************************************************************************)
EXTENDS Naturals, Sequences, FiniteSets, TLC

VARIABLES
    script,      \* which of the two scripts this run is
    pc,          \* where the run is: read, transform, write (update_td);
                 \* describe, transform, register, update (deploy);
                 \* done (ended normally), raised (ended by an uncaught exception)
    svc,         \* deploy_ecs: position in SERVICES of the current deploy() call
    tag,         \* new_image_tag: sys.argv[2], or the literal of deploy_ecs
    file,        \* update_td: content of the file named by sys.argv[1]
    raw,         \* the text json.load / json.loads is given
    data,        \* the dict parsed from it (td is data['taskDefinition'])
    clean_td,    \* clean_td of update_td, new_td of deploy
    heap,        \* the list objects, by address
    err,         \* the exception raised, if any
    log,         \* deploy_ecs: the aws calls issued so far, in order
    submitted,   \* deploy_ecs: the --cli-input-json argument of this deploy()
    new_td_arn   \* deploy_ecs: the identifier register returned

vars == <<script, pc, svc, tag, file, raw, data, clean_td, heap, err, log,
          submitted, new_td_arn>>

----------------------------------------------------------------------------
(* Bounds of the input space *)

MaxContainers == 2
MaxImgLen == 2
MaxTagLen == 1
MaxOptKeys == 1

----------------------------------------------------------------------------
(* Program constants *)

API_FIELDS == {"taskRoleArn", "executionRoleArn", "networkMode",
               "placementConstraints", "requiresCompatibilities",
               "cpu", "memory", "runtimePlatform"}

NEW_IMAGE_TAG == <<"2", "0", "2", "6", "0", "1", "1", "5", "1", "2", "5", "8">>

SERVICES == <<"parrot-dev-backend", "parrot-dev-frontend">>

----------------------------------------------------------------------------
(* Input space *)

Chars == {"a", ":"}

Strs(n) == UNION {[1..k -> Chars] : k \in 0..n}

(* The shapes repository:tag and host:port:tag, whatever the length bound. *)
SampleImages == {<<"a", ":", "a">>, <<"a", ":", "a", ":", "a">>}

Images == Strs(MaxImgLen) \cup SampleImages

Tags == Strs(MaxTagLen)

NoImage == [hasImage |-> FALSE, image |-> <<>>]

Containers == {[hasImage |-> TRUE, image |-> s] : s \in Images} \cup {NoImage}

CdLists == UNION {[1..k -> Containers] : k \in 0..MaxContainers}

(* Keys the platform adds to a described task definition; not allow-listed. *)
ReadOnlyKeys == {"revision", "status"}

OtherKeys == API_FIELDS \cup {"volumes"} \cup ReadOnlyKeys

Values == {"null", "v"}

EmptyFields == [k \in {} |-> "v"]

KeyPatterns ==
    UNION {[S -> Values] : S \in {T \in SUBSET OtherKeys : Cardinality(T) <= MaxOptKeys}}

SampleCds == <<[hasImage |-> TRUE, image |-> <<"a", ":">>]>>

(* Documents that vary in their keys, over one container list. *)
KeyDocs ==
    {[fields |-> f, hasCds |-> TRUE, cds |-> SampleCds] : f \in KeyPatterns}
    \cup {[fields |-> f @@ [family |-> "v"], hasCds |-> TRUE, cds |-> SampleCds] :
            f \in KeyPatterns}
    \cup {[fields |-> f @@ [family |-> "v"], hasCds |-> FALSE, cds |-> <<>>] :
            f \in KeyPatterns}
    \cup {[fields |-> EmptyFields, hasCds |-> FALSE, cds |-> <<>>]}

(* Documents that vary in their container definitions, over one key set. *)
ImageDocs ==
    {[fields |-> [family |-> "v", cpu |-> "v", memory |-> "null", revision |-> "v"],
      hasCds |-> TRUE, cds |-> c] : c \in CdLists}

Docs == KeyDocs \cup ImageDocs

MinimalDoc == [fields |-> [family |-> "v"], hasCds |-> TRUE, cds |-> SampleCds]

(* JSON texts: a document in its envelope, or an object without the envelope key. *)
Texts == {[envelope |-> TRUE, doc |-> d] : d \in Docs}
         \cup {[envelope |-> FALSE, doc |-> MinimalDoc]}

(* What describe-task-definition prints when it succeeds. *)
Responses == {x \in Texts : x.envelope}

NoText == [envelope |-> FALSE, doc |-> [fields |-> EmptyFields, hasCds |-> FALSE, cds |-> <<>>]]

Arns == {"arn1", "arn2"}

----------------------------------------------------------------------------
(* Values of the program's variables *)

NoErr == [kind |-> "none", key |-> ""]

KeyError(k) == [kind |-> "KeyError", key |-> k]

NoData == [envelope |-> FALSE, fields |-> EmptyFields, hasCds |-> FALSE, ref |-> 0]

NoClean == [fields |-> EmptyFields, ref |-> 0]

----------------------------------------------------------------------------
(* The transform: update_td.py lines 8-31, deploy_ecs.py lines 14-39 *)

(* s.rsplit(':', 1)[0] in place of s.split(':')[0]: cuts at the last ':'. *)
RECURSIVE SplitLast(_)
SplitLast(s) ==
    IF \A i \in 1..Len(s) : s[i] # ":" THEN s
    ELSE IF s[Len(s)] = ":" THEN SubSeq(s, 1, Len(s) - 1)
    ELSE SplitLast(SubSeq(s, 1, Len(s) - 1))

(* s.split(':')[0]: the text of s before its first ':', all of s without one. *)
RECURSIVE SplitFirst(_)
SplitFirst(s) ==
    IF s = <<>> THEN <<>>
    ELSE IF Head(s) = ":" THEN <<>>
    ELSE <<Head(s)>> \o SplitFirst(Tail(s))

(* The tag appended to the whole image, the split forgotten. *)
NewImageNoSplit(image, t) == image \o <<":">> \o t

(* f"{image_base}:{new_image_tag}" *)
NewImage(image, t) == SplitFirst(image) \o <<":">> \o t

(* for cd in clean_td['containerDefinitions'], from position i on: each dict is
   changed in place; cd['image'] raises KeyError at the first dict without the
   key, and the dicts before it stay changed. *)
RECURSIVE RetagLoop(_, _, _)
RetagLoop(cds, i, t) ==
    IF i > Len(cds) THEN [cds |-> cds, err |-> NoErr]
    ELSE IF ~cds[i].hasImage THEN [cds |-> cds, err |-> KeyError("image")]
    ELSE RetagLoop([cds EXCEPT ![i].image = NewImage(@, t)], i + 1, t)

(* td.get('volumes', []) *)
GetVolumes(fields) ==
    IF "volumes" \in DOMAIN fields THEN fields["volumes"] ELSE "[]"

(* The api_fields loop without its `is not None` test. *)
CopiedFieldsWithNulls(fields) ==
    {k \in API_FIELDS : k \in DOMAIN fields}

(* The api_fields loop: val = td.get(field); if val is not None: copy. *)
CopiedFields(fields) ==
    {k \in API_FIELDS : k \in DOMAIN fields /\ fields[k] # "null"}

(* The dict literal with td.get('family') in place of td['family']: a missing
   family becomes None instead of raising. *)
BuildCleanTdGetFamily(td) ==
    IF ~td.hasCds
    THEN [err |-> KeyError("containerDefinitions"), clean_td |-> NoClean]
    ELSE [err |-> NoErr,
          clean_td |->
            [fields |-> [family |-> IF "family" \in DOMAIN td.fields
                                    THEN td.fields["family"] ELSE "null",
                         volumes |-> GetVolumes(td.fields)]
                        @@ [k \in CopiedFields(td.fields) |-> td.fields[k]],
             ref |-> td.ref]]

(* The dict literal and the api_fields loop.  td['family'] and
   td['containerDefinitions'] raise KeyError, in that order, when the key is
   missing.  The value stored under containerDefinitions is the input's list
   object itself. *)
BuildCleanTd(td) ==
    IF "family" \notin DOMAIN td.fields
    THEN [err |-> KeyError("family"), clean_td |-> NoClean]
    ELSE IF ~td.hasCds
    THEN [err |-> KeyError("containerDefinitions"), clean_td |-> NoClean]
    ELSE [err |-> NoErr,
          clean_td |->
            [fields |-> [family |-> td.fields["family"],
                         volumes |-> GetVolumes(td.fields)]
                        @@ [k \in CopiedFields(td.fields) |-> td.fields[k]],
             ref |-> td.ref]]

(* The whole transform on the parsed text d with the objects in h:
   data['taskDefinition'], the clean dict, the retag loop. *)
Transform(d, h, t) ==
    IF ~d.envelope
    THEN [err |-> KeyError("taskDefinition"), clean_td |-> NoClean, heap |-> h]
    ELSE LET b == BuildCleanTd(d)
         IN  IF b.err # NoErr
             THEN [err |-> b.err, clean_td |-> NoClean, heap |-> h]
             ELSE LET r == RetagLoop(h[b.clean_td.ref], 1, t)
                  IN  [err |-> r.err, clean_td |-> b.clean_td,
                       heap |-> [h EXCEPT ![b.clean_td.ref] = r.cds]]

(* json.load / json.loads: fresh objects for the text x. *)
Parse(x, h) ==
    [data |-> [envelope |-> x.envelope, fields |-> x.doc.fields,
               hasCds |-> x.doc.hasCds, ref |-> Len(h) + 1],
     heap |-> Append(h, x.doc.cds)]

(* json.dump / json.dumps of the clean dict. *)
Serialize(clean, h) ==
    [envelope |-> FALSE,
     doc |-> [fields |-> clean.fields, hasCds |-> TRUE, cds |-> h[clean.ref]]]

(* What the parsed input dict holds now, as a text. *)
Deref(d, h) ==
    [envelope |-> d.envelope,
     doc |-> [fields |-> d.fields, hasCds |-> d.hasCds, cds |-> h[d.ref]]]

----------------------------------------------------------------------------
(* update_td.py *)

(* with open(filename, 'r') as f: data = json.load(f) *)
ReadFile ==
    /\ script = "update_td" /\ pc = "read"
    /\ LET p == Parse(file, heap)
       IN  /\ raw' = file
           /\ data' = p.data
           /\ heap' = p.heap
    /\ pc' = "transform"
    /\ UNCHANGED <<script, svc, tag, file, clean_td, err, log, submitted, new_td_arn>>

(* TransformTd with the file opened for writing before the transform rather
   than after it: the file is truncated whatever the transform does. *)
TransformTdOpenedForWriting ==
    /\ script = "update_td" /\ pc = "transform"
    /\ LET r == Transform(data, heap, tag)
       IN  /\ clean_td' = r.clean_td
           /\ heap' = r.heap
           /\ err' = r.err
           /\ pc' = IF r.err = NoErr THEN "write" ELSE "raised"
    /\ file' = NoText
    /\ UNCHANGED <<script, svc, tag, raw, data, log, submitted, new_td_arn>>

(* lines 8-31; an exception leaves update_td and ends the process *)
TransformTd ==
    /\ script = "update_td" /\ pc = "transform"
    /\ LET r == Transform(data, heap, tag)
       IN  /\ clean_td' = r.clean_td
           /\ heap' = r.heap
           /\ err' = r.err
           /\ pc' = IF r.err = NoErr THEN "write" ELSE "raised"
    /\ UNCHANGED <<script, svc, tag, file, raw, data, log, submitted, new_td_arn>>

(* with open(filename, 'w') as f: json.dump(clean_td, f, indent=4) *)
WriteFile ==
    /\ script = "update_td" /\ pc = "write"
    /\ file' = Serialize(clean_td, heap)
    /\ pc' = "done"
    /\ UNCHANGED <<script, svc, tag, raw, data, clean_td, heap, err, log, submitted, new_td_arn>>

----------------------------------------------------------------------------
(* deploy_ecs.py *)

Call(op, ok, arn) == [op |-> op, svc |-> svc, ok |-> ok, arn |-> arn]

(* `return` from deploy(): its locals are gone and __main__ goes on to the
   next call of deploy, or ends. *)
Return ==
    /\ svc' = svc + 1
    /\ pc' = IF svc < Len(SERVICES) THEN "describe" ELSE "done"
    /\ raw' = NoText /\ data' = NoData /\ clean_td' = NoClean
    /\ heap' = <<>> /\ submitted' = NoText /\ new_td_arn' = ""

(* lines 7-11: describe-task-definition.  On success res.stdout is kept: an
   object with the key taskDefinition, whose document may lack any key. *)
Describe ==
    /\ script = "deploy_ecs" /\ pc = "describe"
    /\ \/ /\ log' = Append(log, Call("describe", FALSE, ""))
          /\ Return
       \/ /\ log' = Append(log, Call("describe", TRUE, ""))
          /\ \E x \in Responses : raw' = x
          /\ pc' = "transform"
          /\ UNCHANGED <<svc, data, clean_td, heap, submitted, new_td_arn>>
    /\ UNCHANGED <<script, tag, file, err>>

(* lines 13-39; an exception leaves deploy and __main__, which catches nothing *)
TransformDeploy ==
    /\ script = "deploy_ecs" /\ pc = "transform"
    /\ LET p == Parse(raw, heap)
           r == Transform(p.data, p.heap, tag)
       IN  /\ data' = p.data
           /\ clean_td' = r.clean_td
           /\ heap' = r.heap
           /\ err' = r.err
           /\ pc' = IF r.err = NoErr THEN "register" ELSE "raised"
    /\ UNCHANGED <<script, svc, tag, file, raw, log, submitted, new_td_arn>>

(* Register without the `return` of its failure branch: the run goes on to
   update-service with no identifier. *)
RegisterFallsThrough ==
    /\ script = "deploy_ecs" /\ pc = "register"
    /\ \/ /\ log' = Append(log, Call("register", FALSE, ""))
          /\ submitted' = Serialize(clean_td, heap)
          /\ new_td_arn' = ""
          /\ pc' = "update"
          /\ UNCHANGED <<svc, raw, data, clean_td, heap>>
       \/ \E a \in Arns :
            /\ log' = Append(log, Call("register", TRUE, a))
            /\ submitted' = Serialize(clean_td, heap)
            /\ new_td_arn' = a
            /\ pc' = "update"
            /\ UNCHANGED <<svc, raw, data, clean_td, heap>>
    /\ UNCHANGED <<script, tag, file, err>>

(* lines 42-50: register-task-definition with json.dumps(new_td) *)
Register ==
    /\ script = "deploy_ecs" /\ pc = "register"
    /\ \/ /\ log' = Append(log, Call("register", FALSE, ""))
          /\ Return
       \/ \E a \in Arns :
            /\ log' = Append(log, Call("register", TRUE, a))
            /\ submitted' = Serialize(clean_td, heap)
            /\ new_td_arn' = a
            /\ pc' = "update"
            /\ UNCHANGED <<svc, raw, data, clean_td, heap>>
    /\ UNCHANGED <<script, tag, file, err>>

(* lines 53-59: update-service --task-definition new_td_arn; deploy returns
   after it either way *)
UpdateService ==
    /\ script = "deploy_ecs" /\ pc = "update"
    /\ \E ok \in BOOLEAN : log' = Append(log, Call("update", ok, new_td_arn))
    /\ Return
    /\ UNCHANGED <<script, tag, file, err>>

----------------------------------------------------------------------------

Init ==
    /\ script \in {"update_td", "deploy_ecs"}
    /\ pc = IF script = "update_td" THEN "read" ELSE "describe"
    /\ svc = 1
    /\ IF script = "update_td"
       THEN file \in Texts /\ tag \in Tags
       ELSE file = NoText /\ tag = NEW_IMAGE_TAG
    /\ raw = NoText
    /\ data = NoData
    /\ clean_td = NoClean
    /\ heap = <<>>
    /\ err = NoErr
    /\ log = <<>>
    /\ submitted = NoText
    /\ new_td_arn = ""

Next ==
    \/ ReadFile
    \/ TransformTd
    \/ WriteFile
    \/ Describe
    \/ TransformDeploy
    \/ Register
    \/ UpdateService

Spec == Init /\ [][Next]_vars

----------------------------------------------------------------------------
(* Vocabulary of the properties *)

(* The transform has run to its end and its locals are live. *)
TransformDone ==
    \/ script = "update_td" /\ pc \in {"write", "done"}
    \/ script = "deploy_ecs" /\ pc \in {"register", "update"}

(* The clean document has been handed off: written to the file, or given to
   register-task-definition. *)
HandedOff ==
    \/ script = "update_td" /\ pc = "done"
    \/ script = "deploy_ecs" /\ pc = "update"

Handed == IF script = "update_td" THEN file ELSE submitted

(* p is the text of s before its first ':', all of s when s has none. *)
IsRepositoryPrefix(p, s) ==
    /\ Len(p) <= Len(s)
    /\ \A i \in 1..Len(p) : p[i] = s[i] /\ p[i] # ":"
    /\ Len(p) = Len(s) \/ s[Len(p) + 1] = ":"

(* out is in with every image retagged to t: as many containers, in order. *)
Retagged(in, out, t) ==
    /\ Len(out) = Len(in)
    /\ \A i \in 1..Len(in) :
         /\ out[i].hasImage
         /\ \E n \in 0..Len(in[i].image) :
              /\ IsRepositoryPrefix(SubSeq(in[i].image, 1, n), in[i].image)
              /\ out[i].image = SubSeq(in[i].image, 1, n) \o <<":">> \o t

KeysOf(doc) ==
    DOMAIN doc.fields \cup (IF doc.hasCds THEN {"containerDefinitions"} ELSE {})

(* The keys the clean document of `in` is to have. *)
AllowedKeys(in) ==
    {"family", "containerDefinitions", "volumes"}
    \cup {k \in API_FIELDS : k \in DOMAIN in.fields /\ in.fields[k] # "null"}

CleanKeysOk(in, out) ==
    /\ KeysOf(out) = AllowedKeys(in)
    /\ \A k \in API_FIELDS \cap DOMAIN out.fields : out.fields[k] # "null"

----------------------------------------------------------------------------
(* C1: after the transform with a non-empty tag, every container of the output
   has image <prefix>:<tag>, the prefix being the input image's text before
   its first ':' (all of it without one); the containers keep their number
   and order.  It holds of the document in memory and of the one written to
   the file or given to register. *)
C1_EveryImageRetagged ==
    /\ (TransformDone /\ tag # <<>>)
          => Retagged(raw.doc.cds, heap[clean_td.ref], tag)
    /\ (HandedOff /\ tag # <<>>)
          => Retagged(raw.doc.cds, Handed.doc.cds, tag)

C1_Witness ==
    /\ script = "update_td" /\ pc = "done" /\ tag = <<"a">>
    /\ Len(raw.doc.cds) = 2
    /\ raw.doc.cds[1].image = <<"a", ":", "a", ":", "a">>
    /\ raw.doc.cds[2].image = <<"a", "a">>
    /\ file.doc.cds[1].image = <<"a", ":", "a">>
    /\ file.doc.cds[2].image = <<"a", "a", ":", "a">>

(* C2: the keys of the output are family, containerDefinitions, volumes and
   the allow-listed optional fields that are present and not null in the
   input; no other key, and no optional field with a null value. *)
C2_OutputKeys ==
    /\ TransformDone
          => CleanKeysOk(raw.doc, Serialize(clean_td, heap).doc)
    /\ HandedOff => CleanKeysOk(raw.doc, Handed.doc)

C2_Witness ==
    /\ HandedOff
    /\ "memory" \in DOMAIN raw.doc.fields /\ raw.doc.fields["memory"] = "null"
    /\ "revision" \in DOMAIN raw.doc.fields
    /\ KeysOf(Handed.doc) = {"family", "containerDefinitions", "volumes", "cpu"}

(* C3: the transform leaves its input as it was: the parsed input document
   still reads as the text it was parsed from, and the output's container
   list is an object of its own.  Stated for the non-empty tags, which the
   transform is meant to accept. *)
C3_InputUntouched ==
    (data # NoData /\ tag # <<>>) =>
        /\ Deref(data, heap) = raw
        /\ clean_td # NoClean => clean_td.ref # data.ref

(* The required keys that the document lacks. *)
MissingRequired(doc) ==
    {k \in {"family"} : k \notin DOMAIN doc.fields}
    \cup (IF doc.hasCds THEN {} ELSE {"containerDefinitions"})

(* The transform has been applied to the text in raw, whatever came of it. *)
TransformTried ==
    /\ raw.envelope
    /\ pc \notin {"read", "describe", "transform"}

RegisterCalls(n) ==
    {i \in 1..Len(log) : log[i].svc = n /\ log[i].op = "register"}

(* C4: a document without family or without containerDefinitions makes the
   transform fail with an error that names a key the document lacks (Python's
   KeyError, the MissingFieldError of the design), and no output document
   exists: none in memory, the file as it was, no register call. *)
C4_MissingFieldRaises ==
    (TransformTried /\ MissingRequired(raw.doc) # {}) =>
        /\ pc = "raised"
        /\ err.kind = "KeyError"
        /\ err.key \in MissingRequired(raw.doc)
        /\ clean_td = NoClean
        /\ script = "update_td" => file = raw
        /\ script = "deploy_ecs" => RegisterCalls(svc) = {}

C4_Witness ==
    /\ script = "update_td" /\ pc = "raised"
    /\ raw.envelope /\ raw.doc.hasCds
    /\ "family" \notin DOMAIN raw.doc.fields
    /\ "cpu" \in DOMAIN raw.doc.fields
    /\ err = KeyError("family")
    /\ file = raw

C4_WitnessContainerDefinitions ==
    /\ script = "deploy_ecs" /\ pc = "raised"
    /\ raw.envelope /\ ~raw.doc.hasCds
    /\ "family" \in DOMAIN raw.doc.fields
    /\ err = KeyError("containerDefinitions")

(* A text the transform accepts: envelope, both required keys, an image in
   every container. *)
ValidText(x) ==
    /\ x.envelope
    /\ MissingRequired(x.doc) = {}
    /\ \A i \in 1..Len(x.doc.cds) : x.doc.cds[i].hasImage

(* C5: an empty tag makes update_td fail with InvalidTagError; no image is
   retagged and nothing is written. *)
C5_EmptyTagRejected ==
    (script = "update_td" /\ tag = <<>> /\ ValidText(raw)
        /\ pc \in {"write", "done", "raised"}) =>
        /\ pc = "raised"
        /\ err.kind = "InvalidTagError"
        /\ heap[data.ref] = raw.doc.cds
        /\ file = raw

(* The transform as a function of documents: parse, transform, serialise. *)
T(doc, t) ==
    LET p == Parse([envelope |-> TRUE, doc |-> doc], <<>>)
        r == Transform(p.data, p.heap, t)
    IN  IF r.err = NoErr
        THEN [ok |-> TRUE, doc |-> Serialize(r.clean_td, r.heap).doc]
        ELSE [ok |-> FALSE, doc |-> doc]

(* C9: the transform applied to its own output, with the same non-empty tag,
   succeeds and gives that output again: T(T(d, t), t) = T(d, t). *)
C9_Idempotent ==
    (TransformDone /\ tag # <<>>) =>
        T(Serialize(clean_td, heap).doc, tag)
            = [ok |-> TRUE, doc |-> Serialize(clean_td, heap).doc]

C9_Witness ==
    /\ TransformDone /\ tag # <<>>
    /\ \E i \in 1..Len(raw.doc.cds) :
         /\ raw.doc.cds[i].image = <<"a", ":", "a", ":", "a">>
         /\ heap[clean_td.ref][i].image = <<"a", ":">> \o tag

(* C10: update_td changes the file only by the write that follows a completed
   transform; when it ends by an exception the file is what was read. *)
C10_FileKeptOnFailure ==
    /\ [](script = "update_td" /\ pc = "raised" => file = raw)
    /\ [][file' # file => (pc = "write" /\ err = NoErr /\ pc' = "done")]_vars

C10_Witness ==
    /\ script = "update_td" /\ pc = "raised"
    /\ err = KeyError("image")
    /\ Len(raw.doc.cds) = 2
    /\ heap[data.ref][1].image # raw.doc.cds[1].image
    /\ file = raw

----------------------------------------------------------------------------
(* deploy_ecs: the calls *)

Ended == pc \in {"done", "raised"}

Described(n) == \E i \in 1..Len(log) : log[i].svc = n /\ log[i].op = "describe"

(* C6: whatever external calls fail, the describe call of every service has
   been attempted by the time the run ends. *)
C6_EveryServiceAttempted ==
    (script = "deploy_ecs" /\ Ended) => \A n \in 1..Len(SERVICES) : Described(n)

(* What C6 says of the failures of external calls alone: the step that issues
   a failing call, or the last call of a service, is followed by the describe
   of the next service when there is one. *)
ExternalFailureSkipsToNext ==
    [][(Len(log') = Len(log) + 1
          /\ (~log'[Len(log')].ok \/ log'[Len(log')].op = "update")
          /\ svc < Len(SERVICES))
         => (pc' = "describe" /\ svc' = svc + 1)]_vars

(* The calls of service n, in the order issued. *)
CallsOf(n) == SelectSeq(log, LAMBDA c : c.svc = n)

CallOrder == <<"describe", "register", "update">>

(* The log as C7 allows it. *)
LogInOrder ==
    /\ \A i, j \in 1..Len(log) : i < j => log[i].svc <= log[j].svc
    /\ \A i \in 1..Len(log) : log[i].svc \in 1..Len(SERVICES) /\ log[i].svc <= svc
    /\ \A n \in 1..Len(SERVICES) :
         LET c == CallsOf(n)
         IN  /\ Len(c) <= Len(CallOrder)
             /\ \A k \in 1..Len(c) :
                  /\ c[k].op = CallOrder[k]
                  /\ k < Len(c) => c[k].ok
             /\ Len(c) = 3 => c[3].arn = c[2].arn /\ c[2].arn \in Arns

(* A step that issues a call issues one, for the current service, from the
   place of that call in deploy(); register is given the transformed text. *)
CallIssuedInPlace ==
    Len(log') # Len(log) =>
        /\ Len(log') = Len(log) + 1
        /\ SubSeq(log', 1, Len(log)) = log
        /\ log'[Len(log')].svc = svc
        /\ log'[Len(log')].op = pc
        /\ pc = "register" =>
             /\ TransformDone /\ err = NoErr
             /\ Retagged(raw.doc.cds, Serialize(clean_td, heap).doc.cds, tag)
             /\ log'[Len(log')].ok => submitted' = Serialize(clean_td, heap)

(* C7: services in list order; per service describe, register, update-service
   at most once each and in that order, each only after the one before it
   succeeded; register after the transform; update-service with the identifier
   register returned; nothing for a service after one of its calls failed, and
   nothing for a later service while an earlier one is in progress. *)
C7_CallsSequenced == []LogInOrder /\ [][CallIssuedInPlace]_vars

C7_Witness ==
    /\ script = "deploy_ecs" /\ pc = "done"
    /\ Len(log) = 5
    /\ log[2].op = "register" /\ log[2].ok /\ log[2].arn = "arn2"
    /\ log[3].op = "update" /\ ~log[3].ok /\ log[3].arn = "arn2"
    /\ log[4].op = "describe" /\ log[4].svc = 2 /\ log[4].ok
    /\ log[5].op = "register" /\ ~log[5].ok

(* C8: a fetched document without family or containerDefinitions ends the
   processing of that service only: no uncaught exception, no register or
   update-service call for it, and the other services still attempted. *)
C8_TransformErrorContained ==
    (script = "deploy_ecs" /\ err.kind = "KeyError"
        /\ err.key \in {"family", "containerDefinitions"}) =>
        /\ pc # "raised"
        /\ \A i \in 1..Len(log) : log[i].svc = svc => log[i].op = "describe"
        /\ Ended => \A n \in 1..Len(SERVICES) : Described(n)

====
